---- MODULE Spec2Model ----
(***************************************************************************)
(* The constraint-based timetable synthesizer: TimetableGenerator          *)
(* (timetable_generator.py) driven by main (run_timetable_system.py).      *)
(*                                                                         *)
(* Index conventions follow the source: teachers, courses, days, slots and *)
(* rooms are numbered from 0 inside the constraint model; the Slot column  *)
(* of the emitted schedule is the slot index plus one.                     *)
(***************************************************************************)
EXTENDS Integers, Sequences, FiniteSets, TLC

(***************************************************************************)
(* Bounds of the exploration.                                              *)
(*   ShortTimeout, LongTimeout: the solver's time budget, counted in       *)
(*     branching decisions (variables set to 1) it can take before the     *)
(*     wall clock of `timeout` ends.                                       *)
(*   UnitTimeout: the budget of the runs in which something else than the  *)
(*     search multiplies the states: the loader's random choices, or the   *)
(*     attempts of the adaptive walk.                                      *)
(*   CohortTimeout: a budget long enough for one more class than six on a  *)
(*     day, for the runs that follow the classes of one cohort.            *)
(*   SearchDays: the search is followed on the first SearchDays days; no   *)
(*     posted constraint names a particular day, so every assignment that  *)
(*     occupies at most SearchDays days is a renaming of one of these.     *)
(***************************************************************************)
ShortTimeout == 2
LongTimeout == 6
UnitTimeout == 1
CohortTimeout == 7
SearchDays == 1

(***************************************************************************)
(* Program constants.                                                      *)
(***************************************************************************)
days == <<"Monday", "Tuesday", "Wednesday", "Thursday", "Friday">>
num_days == Len(days)
slots_per_day == 13
max_teacher_slots_per_day == 5
lunch_slots == <<5, 6, 7>>
max_courses == 100
max_teachers == 200
max_rooms == 50
max_lab_rooms == 20
max_courses_per_teacher == 5
max_days == 4
max_slots == 8
consecutive_lab_limit == 15
simple_lab_limit == 20
max_classes_cap == 25
techlounge == {}
constraint_modes == <<"relaxed", "balanced", "hybrid", "real">>

slot_times ==
    <<"08:00 - 09:00", "09:00 - 09:50", "09:50 - 10:40", "10:40 - 11:30",
      "11:30 - 12:20", "12:20 - 01:10", "01:10 - 02:00", "02:00 - 02:50",
      "02:50 - 03:40", "03:40 - 04:30", "04:30 - 05:20", "05:20 - 06:10",
      "06:10 - 07:00">>

(***************************************************************************)
(* Catalog identifiers.  A course code is its sequence of characters, so   *)
(* that the subject prefix and the year digits are read from it the way    *)
(* the source reads them.  RoomPool lists the room numbers in ascending    *)
(* string order, which is the order sorted() gives them; it holds more     *)
(* laboratories and more other rooms than the reduction admits.            *)
(***************************************************************************)
CS21A == <<"C", "S", "2", "1", "A">>
CS21B == <<"C", "S", "2", "1", "B">>
MAX1C == <<"M", "A", "X", "1", "C">>
CoursePool == {CS21A, CS21B, MAX1C}
TeacherPool == {"t1@x", "t2@x", "t3@x"}
\* the room numbers that rooms.csv marks as laboratories
LabNumbers ==
    <<"K01", "K02", "K03", "K04", "K05", "K06", "K07", "K08", "K09",
      "K10", "K11", "K12", "K13", "K14", "K15", "K16", "K17", "K18",
      "K19", "K20", "K21", "L1", "L2">>
RoomPool ==
    LabNumbers \o
    <<"R1", "R2", "S01", "S02", "S03", "S04", "S05", "S06", "S07",
      "S08", "S09", "S10", "S11", "S12", "S13", "S14", "S15", "S16",
      "S17", "S18", "S19", "S20", "S21", "S22", "S23", "S24", "S25",
      "S26", "S27", "S28", "S29", "S30", "S31">>
DeptOfCourse == [c \in CoursePool |-> IF c = MAX1C THEN "MA" ELSE "CS"]

VARIABLES
    teachers,           \* self.teachers: list of teacher ids
    courses,            \* self.courses: list of course codes
    rooms,              \* self.rooms: list of room numbers
    lab_rooms,          \* self.lab_rooms: set of room numbers
    lab_courses,        \* self.lab_courses: set of course codes
    teacher_courses,    \* self.teacher_courses: ordered map teacher -> course list
    valid_teacher_courses, \* self.valid_teacher_courses
    valid_rooms,        \* self.valid_rooms
    course_year,        \* self.course_year
    dept_year_courses,  \* self.dept_year_courses
    all_rooms,          \* self.all_rooms
    x,                  \* keys of the dictionary x of the running call
    course_dept,        \* self.course_dept: course code -> department name
    teacher_dept,       \* self.teacher_dept: teacher -> department id
    dept_id_to_name,    \* self.dept_id_to_name
    dept_name_to_id,    \* self.dept_name_to_id
    departments_csv,    \* rows of departments.csv (no rows when the file is absent)
    courses_csv,        \* rows of course.csv
    rooms_csv,          \* rows of rooms.csv
    teachers_csv,       \* rows of teachers.csv
    assignments_csv,    \* rows of course_for_the_department_and_thier_faculty.csv
    row,                \* load_data: the next row of the assignments table
    assignments_loaded, \* load_data: assignments_loaded
    synth_pos,          \* _create_expertise_based_assignments: the next course
    courses_by_dept_subject,
                        \* _create_expertise_based_assignments: the courses of
                        \* courses_by_dept_subject in the order of the loops
    dept_teachers,      \* _create_expertise_based_assignments: dept_teachers
    expert_teachers,    \* _create_expertise_based_assignments: expert_teachers
    teacher_load,       \* _create_expertise_based_assignments: teacher_load
    drawn,              \* random: the numbers the generator gives after its
                        \* seed, as far as they were asked for: <<k, j>> is
                        \* the answer j to _randbelow(k)
    draw_pos,           \* random: how many of them this construction has used
    first_run,          \* the maps of an earlier construction from the same
                        \* tables and seed, <<>> when there was none
    constraint_mode,    \* main: the profile chosen on the command line
    adaptive,           \* args.adaptive
    max_attempts,       \* args.max_attempts
    reduced,            \* args.reduced
    staggered,          \* args.staggered
    timeout,            \* args.timeout, in branching decisions
    attempt,            \* main: loop variable of the adaptive walk
    current_mode,       \* the profile of the running generate_timetable call
    pc,                 \* "load" | "assignments" | "synthesis" |
                        \* "call" | "solving" | "report" | "done"
    timetable,          \* main: value returned by the last generate_timetable
    exit_code,          \* exit status of the process, -1 while it runs
    assign,             \* solver: the decision variables currently set to 1
    master_timetable,   \* rows of master_timetable.csv
    written             \* master_timetable.csv has been written

catalog == <<teachers, courses, rooms, lab_rooms, lab_courses, teacher_courses>>
built == <<valid_teacher_courses, valid_rooms, course_year, dept_year_courses,
           all_rooms, x>>
tables == <<departments_csv, courses_csv, rooms_csv, teachers_csv, assignments_csv>>
loader == <<row, assignments_loaded, synth_pos, courses_by_dept_subject,
            dept_teachers, expert_teachers, teacher_load, drawn, draw_pos, first_run>>
\* what load_data leaves behind and generate_timetable only reads
loaded == <<course_dept, teacher_dept, dept_id_to_name, dept_name_to_id, tables,
            loader>>
args == <<constraint_mode, adaptive, max_attempts, reduced, staggered, timeout>>
output == <<master_timetable, written>>
vars == <<catalog, built, loaded, args, attempt, current_mode, pc, timetable,
          exit_code, assign, output>>

(***************************************************************************)
(* List helpers.                                                           *)
(***************************************************************************)
Min(a, b) == IF a <= b THEN a ELSE b

Range(s) == {s[i] : i \in DOMAIN s}

\* s[:n]
Take(s, n) == SubSeq(s, 1, Min(n, Len(s)))

\* position of an element of a list, counted from 0
IndexOf(s, e) == (CHOOSE i \in DOMAIN s : s[i] = e) - 1

\* sorted(list(S)) for a set of room numbers
RECURSIVE SortedRooms(_)
SortedRooms(S) ==
    IF S = {} THEN <<>>
    ELSE LET first == CHOOSE r \in S :
                 \A q \in S : IndexOf(RoomPool, r) <= IndexOf(RoomPool, q)
         IN <<first>> \o SortedRooms(S \ {first})

\* the first n of an ascending list of indices, kept as a set
first_indices(S, n) == {c \in S : Cardinality({b \in S : b < c}) < n}

\* one item of self.teacher_courses
Entry(t, cs) == [teacher |-> t, courses |-> cs]

\* self.teacher_courses.get(teacher, [])
TeacherCoursesGet(tc, teacher) ==
    IF \E i \in DOMAIN tc : tc[i].teacher = teacher
    THEN tc[CHOOSE i \in DOMAIN tc : tc[i].teacher = teacher].courses
    ELSE <<>>

(***************************************************************************)
(* load_data.  A table whose file is absent is read as no rows: the loader *)
(* skips the file and leaves the list or map it would have filled empty.   *)
(* Identifiers are unique within the courses, rooms and teachers tables.   *)
(***************************************************************************)
\* row['resignation_status'] == 'active'
IsAnyStatus(r) == TRUE

IsActive(r) == r.resignation_status = "active"

\* row['is_lab'].lower() == 'true'
IsLabRoom(r) == r.is_lab \in {"true", "True", "TRUE"}

\* int(row.get('practical_hours', 0)) >= 2
IsLabCourse(r) == r.practical_hours >= 2

\* the last row of a table whose field `key` has the value k
LastRow(rows, key, k) ==
    rows[CHOOSE i \in DOMAIN rows :
            /\ rows[i][key] = k
            /\ \A j \in DOMAIN rows : rows[j][key] = k => j <= i]

\* a dictionary filled row by row: dict[row[key]] = row[val]
DictOf(rows, key, val) ==
    [k \in {rows[i][key] : i \in DOMAIN rows} |-> LastRow(rows, key, k)[val]]

\* a list filled row by row: list.append(row[key])
ColumnOf(rows, key) == [i \in DOMAIN rows |-> rows[i][key]]

\* the active rows of teachers.csv
active_rows == SelectSeq(teachers_csv, IsActive)

\* self.course_subject_area.get(course_id, "UNKNOWN"): the first two
\* characters of the code; <<"UNKNOWN">> stands for the string "UNKNOWN"
subject_area(course) ==
    IF Len(course) >= 2 THEN SubSeq(course, 1, 2) ELSE <<"UNKNOWN">>

\* self.teacher_expertise.get(t, set()): a subject area is added whenever a
\* course that has one is appended to teacher_courses[t]
teacher_expertise(tc, t) ==
    {subject_area(c) : c \in {d \in Range(TeacherCoursesGet(tc, t)) : Len(d) >= 2}}

\* self.teacher_courses[t]: reading a missing key of the defaultdict adds it
Touch(tc, t) ==
    IF \E i \in DOMAIN tc : tc[i].teacher = t THEN tc ELSE Append(tc, Entry(t, <<>>))

RECURSIVE TouchAll(_, _)
TouchAll(tc, ts) ==
    IF ts = <<>> THEN tc ELSE TouchAll(Touch(tc, Head(ts)), Tail(ts))

\* if course not in self.teacher_courses[t]: self.teacher_courses[t].append(course)
Attach(tc, t, course) ==
    LET tc1 == Touch(tc, t)
    IN [i \in DOMAIN tc1 |->
            IF tc1[i].teacher = t /\ course \notin Range(tc1[i].courses)
            THEN Entry(t, Append(tc1[i].courses, course))
            ELSE tc1[i]]

RECURSIVE AttachAll(_, _, _)
AttachAll(tc, ts, course) ==
    IF ts = <<>> THEN tc
    ELSE AttachAll(Attach(tc, Head(ts), course), Tail(ts), course)

\* random.sample(population, n): any n distinct elements, in any order
Samples(population, n) ==
    LET picks == {q \in [1 .. n -> DOMAIN population] :
                    \A i, j \in 1 .. n : i # j => q[i] # q[j]}
    IN {[i \in 1 .. n |-> population[q[i]]] : q \in picks}

\* The random module.  A seeded generator answers the same sequence of
\* requests with the same numbers.  rec is the record of the requests made
\* since the seed, <<k, j>> for the answer j to _randbelow(k); the request
\* at position pos + i for a number below ks[i] has the recorded answer if
\* the same request was recorded there, and any number below ks[i] otherwise.
below(ks) == [DOMAIN ks -> 0 .. Len(ks) + 2]

\* Variant of seeded_draws for a generator that is not seeded
unseeded_draws(rec, pos, ks) ==
    {js \in below(ks) : \A i \in DOMAIN ks : js[i] < ks[i]}

seeded_draws(rec, pos, ks) ==
    {js \in below(ks) :
        \A i \in DOMAIN ks :
            /\ js[i] < ks[i]
            /\ (pos + i <= Len(rec) /\ rec[pos + i][1] = ks[i])
                   => js[i] = rec[pos + i][2]}

\* the record after the requests ks were answered by js from position pos
\* on; answers to other requests than the recorded ones replace the rest
\* of the record
recorded(rec, pos, ks, js) ==
    LET asked == [i \in DOMAIN ks |-> <<ks[i], js[i]>>]
    IN IF pos + Len(ks) <= Len(rec) /\ SubSeq(rec, pos + 1, pos + Len(ks)) = asked
       THEN rec
       ELSE SubSeq(rec, 1, Min(pos, Len(rec))) \o asked

\* the requests of random.sample(population, n): _randbelow(len - i)
sample_requests(population, n) == [i \in 1 .. n |-> Len(population) - i + 1]

\* random.sample(population, n) for the answers js: result[i] = pool[j],
\* then pool[j] = pool[len - i - 1]
RECURSIVE random_sample(_, _)
random_sample(pool, js) ==
    IF js = <<>> THEN <<>>
    ELSE LET j == Head(js) + 1
             moved == [i \in 1 .. Len(pool) - 1 |->
                          IF i = j THEN pool[Len(pool)] ELSE pool[i]]
         IN <<pool[j]>> \o random_sample(moved, Tail(js))

\* [t for t in self.teachers if self.teacher_dept.get(t) == dept_id]
teachers_of_dept(dept_id) ==
    LET InDept(t) == t \in DOMAIN teacher_dept /\ teacher_dept[t] = dept_id
    IN SelectSeq(teachers, InDept)

\* a row of the assignments table that names a loaded course and a
\* department of the departments table
RowResolves(r) ==
    r.course_code \in Range(courses) /\ r.faculty \in DOMAIN dept_name_to_id

(***************************************************************************)
(* _create_expertise_based_assignments.                                    *)
(***************************************************************************)
\* positions in self.courses of the courses whose department name resolves
synth_positions ==
    {i \in DOMAIN courses :
        /\ courses[i] \in DOMAIN course_dept
        /\ course_dept[courses[i]] \in DOMAIN dept_name_to_id}

synth_dept(course) == dept_name_to_id[course_dept[course]]

\* place of a course in the nested loops over courses_by_dept_subject:
\* departments and, within one, subject areas come in the order in which a
\* course first brought them in; courses keep the order of course_dept
FirstOfDept(i) ==
    CHOOSE j \in synth_positions :
        /\ synth_dept(courses[j]) = synth_dept(courses[i])
        /\ \A k \in synth_positions :
               synth_dept(courses[k]) = synth_dept(courses[i]) => j <= k

FirstOfSubject(i) ==
    CHOOSE j \in synth_positions :
        /\ synth_dept(courses[j]) = synth_dept(courses[i])
        /\ subject_area(courses[j]) = subject_area(courses[i])
        /\ \A k \in synth_positions :
               (/\ synth_dept(courses[k]) = synth_dept(courses[i])
                /\ subject_area(courses[k]) = subject_area(courses[i])) => j <= k

synth_before(i, j) ==
    LET di == FirstOfDept(i)  dj == FirstOfDept(j)
        si == FirstOfSubject(i)  sj == FirstOfSubject(j)
    IN \/ di < dj
       \/ di = dj /\ si < sj
       \/ di = dj /\ si = sj /\ i < j

RECURSIVE synth_sequence(_)
synth_sequence(P) ==
    IF P = {} THEN <<>>
    ELSE LET i == CHOOSE i \in P : \A j \in P \ {i} : synth_before(i, j)
         IN <<courses[i]>> \o synth_sequence(P \ {i})

\* the courses in the order in which the loops reach them
synthesis_order == synth_sequence(synth_positions)

\* Variant of load_before that leaves the candidates in their list order
list_before(load, tc, s, i, j) == i < j

\* sorted(expert_teachers, key=lambda t: (teacher_load[t], len(self.teacher_courses[t])))
load_before(load, tc, s, i, j) ==
    LET li == load[s[i]]  lj == load[s[j]]
        ni == Len(TeacherCoursesGet(tc, s[i]))  nj == Len(TeacherCoursesGet(tc, s[j]))
    IN \/ li < lj
       \/ li = lj /\ ni < nj
       \/ li = lj /\ ni = nj /\ i < j

RECURSIVE sorted_by_load(_, _, _, _)
sorted_by_load(load, tc, s, P) ==
    IF P = {} THEN <<>>
    ELSE LET i == CHOOSE i \in P : \A j \in P \ {i} : load_before(load, tc, s, i, j)
         IN <<s[i]>> \o sorted_by_load(load, tc, s, P \ {i})

(***************************************************************************)
(* generate_with_constraint_mode: the keyword arguments each profile       *)
(* passes to generate_timetable.                                           *)
(***************************************************************************)
\* Variant of relaxed_constraints in which real, too, keeps the relaxed base
relaxed_constraints_always(mode) == TRUE

relaxed_constraints(mode) == mode # "real"
enable_lunch_breaks(mode) == mode \in {"balanced", "hybrid"}
enable_lab_consecutive(mode) == mode \in {"balanced", "hybrid"}
enable_student_conflicts(mode) == mode = "hybrid"
min_course_instances(mode) == IF mode \in {"hybrid", "real"} THEN 2 ELSE 1

(***************************************************************************)
(* Domain reduction (generate_timetable, reduced_problem branch).          *)
(***************************************************************************)
reduced_courses == Take(courses, max_courses)

reduced_lab_courses == {c \in lab_courses : c \in Range(reduced_courses)}

reduced_teacher_courses ==
    [i \in DOMAIN teacher_courses |->
        [teacher |-> teacher_courses[i].teacher,
         courses |-> SelectSeq(teacher_courses[i].courses,
                               LAMBDA c : c \in Range(reduced_courses))]]

active_teachers ==
    LET kept == SelectSeq(reduced_teacher_courses, LAMBDA e : e.courses # <<>>)
    IN [i \in DOMAIN kept |-> kept[i].teacher]

lab_room_count == Min(max_lab_rooms, Cardinality(lab_rooms))
regular_room_count == max_rooms - lab_room_count
lab_rooms_list == Take(SortedRooms(lab_rooms), lab_room_count)
\* Variant of regular_rooms_list that does not leave the laboratories out
regular_rooms_list_any == Take(rooms, regular_room_count)

regular_rooms_list ==
    Take(SelectSeq(rooms, LAMBDA r : r \notin lab_rooms), regular_room_count)
active_rooms == lab_rooms_list \o regular_rooms_list

(***************************************************************************)
(* Model construction (generate_timetable after the reduction).  The build *)
(* definitions read the generator's fields as the call finds them once the *)
(* reduction has been applied; their values are kept in the attributes     *)
(* valid_teacher_courses, valid_rooms, course_year, dept_year_courses and  *)
(* all_rooms.                                                              *)
(***************************************************************************)
lab_rooms_model == SelectSeq(rooms, LAMBDA r : r \in lab_rooms)
tech_rooms == SelectSeq(rooms, LAMBDA r : r \in techlounge)
regular_rooms ==
    SelectSeq(rooms, LAMBDA r : r \notin lab_rooms /\ r \notin techlounge)
build_all_rooms == regular_rooms \o lab_rooms_model \o tech_rooms

num_teachers == Len(teachers)
num_courses == Len(courses)
num_rooms == Len(all_rooms)
reduced_days == Min(max_days, num_days)
\* Variant of reduced_slots that admits every slot of the day
reduced_slots_all == slots_per_day

reduced_slots == Min(max_slots, slots_per_day)

TeacherIdx == 0 .. num_teachers - 1
CourseIdx == 0 .. num_courses - 1
RoomIdx == 0 .. num_rooms - 1
DayIdx == 0 .. reduced_days - 1
SlotIdx == 0 .. reduced_slots - 1

\* self.valid_teacher_courses: for each teacher index the ascending list of
\* the indices of the courses assigned to the teacher, kept as a set
build_valid_teacher_courses ==
    [t \in TeacherIdx |->
        LET assigned_courses ==
                Range(TeacherCoursesGet(teacher_courses, teachers[t + 1]))
        IN {c \in CourseIdx : courses[c + 1] \in assigned_courses}]

\* Variant of valid_rooms that allows theory courses in any room
build_valid_rooms_any_room ==
    [c \in CourseIdx |->
        LET lab_range ==
                Len(regular_rooms) .. Len(regular_rooms) + Len(lab_rooms_model) - 1
            regular_range == 0 .. Len(regular_rooms) - 1
        IN IF courses[c + 1] \in lab_courses
           THEN IF lab_range # {} THEN lab_range ELSE regular_range
           ELSE regular_range \cup lab_range]

\* self.valid_rooms: for each course index the room indices into all_rooms
build_valid_rooms ==
    [c \in CourseIdx |->
        LET lab_range ==
                Len(regular_rooms) .. Len(regular_rooms) + Len(lab_rooms_model) - 1
            regular_range == 0 .. Len(regular_rooms) - 1
        IN IF courses[c + 1] \in lab_courses
           THEN IF lab_range # {} THEN lab_range ELSE regular_range
           ELSE regular_range]

IsDigit(ch) == ch \in {"0", "1", "2", "3", "4", "5", "6", "7", "8", "9"}
DigitValue(ch) ==
    CASE ch = "0" -> 0 [] ch = "1" -> 1 [] ch = "2" -> 2 [] ch = "3" -> 3
      [] ch = "4" -> 4 [] ch = "5" -> 5 [] ch = "6" -> 6 [] ch = "7" -> 7
      [] ch = "8" -> 8 [] ch = "9" -> 9

\* int(course[2:4]) // 10 when both characters are digits, else 0
year_of_course(course) ==
    IF Len(course) >= 4 /\ IsDigit(course[3]) /\ IsDigit(course[4])
    THEN (10 * DigitValue(course[3]) + DigitValue(course[4])) \div 10
    ELSE 0

\* self.course_year
build_course_year == [c \in CourseIdx |-> year_of_course(courses[c + 1])]

\* self.course_dept.get(course, '')
CourseDeptGet(course) ==
    IF course \in DOMAIN course_dept THEN course_dept[course] ELSE ""

\* self.dept_year_courses: (dept, year) -> course indices
build_dept_year_courses ==
    LET grouped == {c \in CourseIdx : /\ CourseDeptGet(courses[c + 1]) # ""
                                      /\ year_of_course(courses[c + 1]) > 0}
        keys == {<<CourseDeptGet(courses[c + 1]), year_of_course(courses[c + 1])>> :
                    c \in grouped}
    IN [key \in keys |->
            {c \in grouped : /\ CourseDeptGet(courses[c + 1]) = key[1]
                             /\ year_of_course(courses[c + 1]) = key[2]}]

\* Variant of courses_to_include that keeps every course of the teacher
courses_to_include_uncapped(t) == valid_teacher_courses[t]

\* courses_to_include as the variable-creation loop computes it for teacher t
courses_to_include(t) ==
    IF reduced /\ Cardinality(valid_teacher_courses[t]) > max_courses_per_teacher
    THEN first_indices(valid_teacher_courses[t], max_courses_per_teacher)
    ELSE valid_teacher_courses[t]

\* courses_to_include as the constraint loops read it: the value the
\* variable-creation loop left behind, that of the last teacher
courses_to_include_after_loop == courses_to_include(num_teachers - 1)

\* The name courses_to_include is unbound when the teacher loop never ran and
\* the course loop of constraint 2 reads it.
unbound_courses_to_include == num_teachers = 0 /\ num_courses > 0

\* (t, c, d, s, r) in x
InX(k) ==
    /\ k[1] \in TeacherIdx /\ k[2] \in CourseIdx /\ k[3] \in DayIdx
    /\ k[4] \in SlotIdx /\ k[5] \in RoomIdx
    /\ k[2] \in courses_to_include(k[1])
    /\ k[5] \in valid_rooms[k[2]]

\* keys of the dictionary x: <<t, c, d, s, r>>
build_x == {k \in TeacherIdx \X CourseIdx \X DayIdx \X SlotIdx \X RoomIdx : InX(k)}

(***************************************************************************)
(* The posted constraints.  A is the set of keys of x whose variable has   *)
(* value 1; a sum of variables is the number of its keys that lie in A, so *)
(* a key that is not in x (x.get(key, 0), or skipped by "in x") adds 0.    *)
(* The source posts each "sum <= bound" once per index tuple of its loops; *)
(* a tuple none of whose variables is 1 has sum 0 and holds, so the        *)
(* definitions range over the index tuples that occur in A.                *)
(***************************************************************************)
lab_indices == {c \in CourseIdx : courses[c + 1] \in lab_courses}

\* Constraint 1: a teacher can teach at most one course in one slot
teacher_slot_constraint(A) ==
    \A g \in {<<k[1], k[3], k[4]>> : k \in A} :
        LET t == g[1]  d == g[2]  s == g[3]
        IN Cardinality({k \in A : /\ k[1] = t /\ k[3] = d /\ k[4] = s
                                  /\ k[2] \in valid_teacher_courses[t]
                                  /\ k[2] \in courses_to_include_after_loop
                                  /\ k[5] \in valid_rooms[k[2]]}) <= 1

\* Constraint 2: a course can be taught by only one teacher at a time
course_slot_constraint(A) ==
    \A g \in {<<k[2], k[3], k[4]>> : k \in A} :
        LET c == g[1]  d == g[2]  s == g[3]
        IN c \in courses_to_include_after_loop =>
            Cardinality({k \in A : /\ k[2] = c /\ k[3] = d /\ k[4] = s
                                   /\ c \in valid_teacher_courses[k[1]]
                                   /\ k[5] \in valid_rooms[c]}) <= 1

\* Variant of constraint 3 that, like constraints 1 and 2, only counts the
\* courses of courses_to_include
room_slot_constraint_leaked(A) ==
    \A g \in {<<k[5], k[3], k[4]>> : k \in A} :
        LET r == g[1]  d == g[2]  s == g[3]
        IN Cardinality({k \in A : /\ k[5] = r /\ k[3] = d /\ k[4] = s
                                  /\ k[2] \in valid_teacher_courses[k[1]]
                                  /\ k[2] \in courses_to_include_after_loop
                                  /\ r \in valid_rooms[k[2]]}) <= 1

\* Constraint 3: a room can be used for at most one course in one slot
room_slot_constraint(A) ==
    \A g \in {<<k[5], k[3], k[4]>> : k \in A} :
        LET r == g[1]  d == g[2]  s == g[3]
        IN Cardinality({k \in A : /\ k[5] = r /\ k[3] = d /\ k[4] = s
                                  /\ k[2] \in valid_teacher_courses[k[1]]
                                  /\ r \in valid_rooms[k[2]]}) <= 1

\* Variant of constraint 4 whose comparison is strict on the wrong side:
\* sum <= max_teacher_slots_per_day + 1
teacher_day_constraint_six(A) ==
    \A g \in {<<k[1], k[3]>> : k \in A} :
        LET t == g[1]  d == g[2]
        IN Cardinality({k \in A : /\ k[1] = t /\ k[3] = d
                                  /\ k[2] \in valid_teacher_courses[t]
                                  /\ k[5] \in valid_rooms[k[2]]})
             <= max_teacher_slots_per_day + 1

\* Constraint 4: maximum 5 teaching hours per day for teachers
teacher_day_constraint(A) ==
    \A g \in {<<k[1], k[3]>> : k \in A} :
        LET t == g[1]  d == g[2]
        IN Cardinality({k \in A : /\ k[1] = t /\ k[3] = d
                                  /\ k[2] \in valid_teacher_courses[t]
                                  /\ k[5] \in valid_rooms[k[2]]})
             <= max_teacher_slots_per_day

\* lunch_slots = [s for s in self.lunch_slots if s < reduced_slots]
lunch_slots_admitted == {s \in Range(lunch_slots) : s < reduced_slots}

\* Constraint 5: at least one free slot during lunch time
lunch_constraint(A) ==
    lunch_slots_admitted # {} =>
        \A g \in {<<k[1], k[3]>> : k \in A} :
            LET t == g[1]  d == g[2]
            IN Cardinality({k \in A : /\ k[1] = t /\ k[3] = d
                                      /\ k[2] \in valid_teacher_courses[t]
                                      /\ k[4] \in lunch_slots_admitted
                                      /\ k[5] \in valid_rooms[k[2]]})
                 <= Cardinality(lunch_slots_admitted) - 1

\* Variant of lab_consecutive_constraint that posts no chain
lab_consecutive_constraint_none(A) == TRUE

\* Lab courses require consecutive slots: x[t,c,d,s+1,r] >= x[t,c,d,s,r],
\* posted for every key of the first lab courses whose successor is a key
lab_consecutive_constraint(A) ==
    \A k \in A :
        LET t == k[1]  c == k[2]  d == k[3]  s == k[4]  r == k[5]
        IN (/\ c \in first_indices(lab_indices, consecutive_lab_limit)
            /\ c \in valid_teacher_courses[t]
            /\ s \in 0 .. reduced_slots - 2
            /\ r \in valid_rooms[c]
            /\ <<t, c, d, s, r>> \in x /\ <<t, c, d, s + 1, r>> \in x)
           => <<t, c, d, s + 1, r>> \in A

\* Simplified lab course constraint: each lab course at least once
lab_simple_constraint(A) ==
    \A c \in first_indices(lab_indices, simple_lab_limit) :
        LET lab_slots == {k \in x : /\ k[2] = c
                                    /\ c \in valid_teacher_courses[k[1]]
                                    /\ k[4] \in 0 .. reduced_slots - 2}
        IN lab_slots # {} => Cardinality(A \cap lab_slots) >= 1

\* Variant of course_min_instances that never leaves the default of 1
course_min_instances_default(mode) == 1

\* course_min_instances
course_min_instances(mode) ==
    IF ~relaxed_constraints(mode) THEN 2 ELSE min_course_instances(mode)

\* Each course must be scheduled at least course_min_instances times
min_instances_constraint(mode, A) ==
    \A c \in CourseIdx :
        LET course_slots == {k \in x : k[2] = c /\ c \in valid_teacher_courses[k[1]]}
        IN (course_slots # {}
                /\ Cardinality(course_slots) >= course_min_instances(mode)) =>
            Cardinality(A \cap course_slots) >= course_min_instances(mode)

\* Student conflict avoidance: one course per department and year in a slot
student_conflict_constraint(A) ==
    \A key \in DOMAIN dept_year_courses :
        Cardinality(dept_year_courses[key]) > 1 =>
            \A g \in {<<k[3], k[4]>> : k \in A} :
                LET d == g[1]  s == g[2]
                IN Cardinality({k \in A : /\ k[2] \in dept_year_courses[key]
                                          /\ k[3] = d /\ k[4] = s
                                          /\ k[2] \in valid_teacher_courses[k[1]]
                                          /\ k[5] \in valid_rooms[k[2]]}) <= 1

\* Variant of max_classes_per_slot that ignores the number of rooms
max_classes_per_slot_flat == max_classes_cap

max_classes_per_slot == Min(max_classes_cap, num_rooms \div 2)

\* Staggered scheduling: cap on the classes of any one slot
staggered_constraint(A) ==
    \A g \in {<<k[3], k[4]>> : k \in A} :
        LET d == g[1]  s == g[2]
        IN Cardinality({k \in A : /\ k[3] = d /\ k[4] = s
                                  /\ k[2] \in valid_teacher_courses[k[1]]
                                  /\ k[5] \in valid_rooms[k[2]]})
             <= max_classes_per_slot

\* every constraint the call posts under the keyword arguments of a profile
posted_constraints(mode, A) ==
    /\ teacher_slot_constraint(A)
    /\ course_slot_constraint(A)
    /\ room_slot_constraint(A)
    /\ teacher_day_constraint(A)
    /\ (~relaxed_constraints(mode) \/ enable_lunch_breaks(mode))
            => lunch_constraint(A)
    /\ IF ~relaxed_constraints(mode) \/ enable_lab_consecutive(mode)
       THEN lab_consecutive_constraint(A)
       ELSE lab_simple_constraint(A)
    /\ min_instances_constraint(mode, A)
    /\ (~relaxed_constraints(mode) \/ enable_student_conflicts(mode))
            => student_conflict_constraint(A)
    /\ staggered => staggered_constraint(A)

(***************************************************************************)
(* Solution materializer: print_timetable and save_timetable_to_csv.       *)
(***************************************************************************)
\* Variant of printed_keys that, like constraints 1 and 2, only visits the
\* courses of courses_to_include
printed_keys_leaked(A) ==
    {k \in A : /\ k[1] \in TeacherIdx
               /\ k[2] \in valid_teacher_courses[k[1]]
               /\ k[2] \in courses_to_include_after_loop
               /\ k[5] \in valid_rooms[k[2]]
               /\ InX(k)}

\* the keys print_timetable visits and finds with value 1
printed_keys(A) ==
    {k \in A : /\ k[3] \in 0 .. num_days - 1
               /\ k[4] \in 0 .. slots_per_day - 1
               /\ k[1] \in TeacherIdx
               /\ k[2] \in valid_teacher_courses[k[1]]
               /\ k[5] \in valid_rooms[k[2]]
               /\ InX(k)}

\* position of a key in the nested loops: day, slot, teacher, course, room
print_order(k) ==
    (((k[3] * slots_per_day + k[4]) * num_teachers + k[1]) * num_courses + k[2])
        * num_rooms + k[5]

\* self.dept_id_to_name.get(self.teacher_dept.get(teacher, ''), '')
teacher_dept_name(teacher) ==
    LET dept_id == IF teacher \in DOMAIN teacher_dept THEN teacher_dept[teacher] ELSE ""
    IN IF dept_id \in DOMAIN dept_id_to_name THEN dept_id_to_name[dept_id] ELSE ""

\* one row of master_timetable.csv
schedule_row(k) ==
    [Day |-> days[k[3] + 1],
     Slot |-> k[4] + 1,
     Time |-> slot_times[k[4] + 1],
     Course |-> courses[k[2] + 1],
     Teacher |-> teachers[k[1] + 1],
     Department |-> teacher_dept_name(teachers[k[1] + 1]),
     Room |-> all_rooms[k[5] + 1]]

RECURSIVE rows_in_print_order(_)
rows_in_print_order(K) ==
    IF K = {} THEN <<>>
    ELSE LET k == CHOOSE k \in K : \A j \in K : print_order(k) <= print_order(j)
         IN <<schedule_row(k)>> \o rows_in_print_order(K \ {k})

\* rows handed to the CSV writer for the assignment A
timetable_rows(A) == rows_in_print_order(printed_keys(A))

(***************************************************************************)
(* main: the adaptive walk.                                                *)
(***************************************************************************)
adaptive_walk == adaptive /\ constraint_mode # "relaxed"
current_mode_idx == IndexOf(constraint_modes, constraint_mode)
attempts_allowed == Min(max_attempts, current_mode_idx + 1)
\* Variant of the walk that never leaves the chosen profile
attempt_mode_chosen == constraint_mode

attempt_mode ==
    IF adaptive_walk THEN constraint_modes[current_mode_idx - attempt + 1]
    ELSE constraint_mode

(***************************************************************************)
(* Actions.                                                                *)
(***************************************************************************)
\* load_data, the four catalog tables: departments, courses, rooms, teachers
LoadTables ==
    /\ pc = "load"
    /\ dept_id_to_name' = DictOf(departments_csv, "id", "dept_name")
    /\ dept_name_to_id' = DictOf(departments_csv, "dept_name", "id")
    /\ courses' = ColumnOf(courses_csv, "course_id")
    /\ course_dept' = DictOf(courses_csv, "course_id", "course_dept_id")
    /\ lab_courses' = {courses_csv[i].course_id :
                          i \in {j \in DOMAIN courses_csv : IsLabCourse(courses_csv[j])}}
    /\ rooms' = ColumnOf(rooms_csv, "room_number")
    /\ lab_rooms' = {rooms_csv[i].room_number :
                        i \in {j \in DOMAIN rooms_csv : IsLabRoom(rooms_csv[j])}}
    /\ teachers' = ColumnOf(active_rows, "teacher_id__email")
    /\ teacher_dept' = DictOf(active_rows, "teacher_id__email", "dept_id")
    /\ teacher_courses' = <<>>
    /\ row' = 1
    /\ assignments_loaded' = FALSE
    /\ pc' = "assignments"
    /\ UNCHANGED <<built, tables, args, attempt, current_mode, timetable, exit_code,
                   assign, output, synth_pos, courses_by_dept_subject, dept_teachers,
                   expert_teachers, teacher_load, drawn, draw_pos, first_run>>

\* load_data, one row of the assignments table: 1-2 teachers of the teaching
\* department are sampled and attached to the course
LoadAssignmentRow ==
    /\ pc = "assignments"
    /\ row <= Len(assignments_csv)
    /\ LET r == assignments_csv[row]
           of_dept == teachers_of_dept(dept_name_to_id[r.faculty])
       IN IF RowResolves(r)
          THEN /\ assignments_loaded' = TRUE
               /\ IF of_dept # <<>>
                  THEN LET ks == sample_requests(of_dept, Min(2, Len(of_dept)))
                       IN \E js \in seeded_draws(drawn, draw_pos, ks) :
                            LET assigned_teachers == random_sample(of_dept, js)
                            IN /\ teacher_courses' =
                                      AttachAll(teacher_courses, assigned_teachers,
                                                r.course_code)
                               /\ drawn' = recorded(drawn, draw_pos, ks, js)
                               /\ draw_pos' = draw_pos + Len(ks)
                  ELSE UNCHANGED <<teacher_courses, drawn, draw_pos>>
          ELSE UNCHANGED <<assignments_loaded, teacher_courses, drawn, draw_pos>>
    /\ row' = row + 1
    /\ UNCHANGED first_run
    /\ UNCHANGED <<teachers, courses, rooms, lab_rooms, lab_courses, built, course_dept,
                   teacher_dept, dept_id_to_name, dept_name_to_id, tables, args, attempt,
                   current_mode, pc, timetable, exit_code, assign, output, synth_pos,
                   courses_by_dept_subject, dept_teachers, expert_teachers,
                   teacher_load>>

\* load_data after the assignments table: the synthesis runs only when no
\* row of the table resolved
EndOfAssignments ==
    /\ pc = "assignments"
    /\ row > Len(assignments_csv)
    /\ pc' = IF assignments_loaded THEN "call" ELSE "synthesis"
    /\ synth_pos' = 1
    /\ courses_by_dept_subject' = IF assignments_loaded THEN <<>> ELSE synthesis_order
    /\ UNCHANGED <<catalog, built, course_dept, teacher_dept, dept_id_to_name,
                   dept_name_to_id, tables, args, attempt, current_mode, timetable,
                   exit_code, assign, output, row, assignments_loaded, dept_teachers,
                   expert_teachers, teacher_load, drawn, draw_pos, first_run>>

\* _create_expertise_based_assignments, one course of the nested loops
SynthesizeCourse ==
    /\ pc = "synthesis"
    /\ LET order == courses_by_dept_subject
           course_id == order[synth_pos]
           dept_id == synth_dept(course_id)
           subject == subject_area(course_id)
           new_dept ==
               synth_pos = 1 \/ synth_dept(order[synth_pos - 1]) # dept_id
           new_subject ==
               new_dept \/ subject_area(order[synth_pos - 1]) # subject
           sampling ==
               new_dept /\ teachers_of_dept(dept_id) = <<>> /\ teachers # <<>>
           ks1 == IF sampling
                  THEN sample_requests(teachers, Min(3, Len(teachers)))
                  ELSE <<>>
       IN /\ synth_pos <= Len(order)
          /\ \E js1 \in seeded_draws(drawn, draw_pos, ks1) :
            LET dts == IF ~new_dept THEN dept_teachers
                       ELSE IF sampling THEN random_sample(teachers, js1)
                       ELSE teachers_of_dept(dept_id)
                drawn1 == recorded(drawn, draw_pos, ks1, js1)
            IN
            /\ dept_teachers' = dts
            /\ IF dts = <<>>
               THEN /\ UNCHANGED <<teacher_courses, expert_teachers, teacher_load>>
                    /\ drawn' = drawn1
                    /\ draw_pos' = draw_pos + Len(ks1)
               ELSE LET IsExpert(t) == subject \in teacher_expertise(teacher_courses, t)
                        experts ==
                            IF ~new_subject THEN expert_teachers
                            ELSE IF SelectSeq(dts, IsExpert) # <<>>
                                 THEN SelectSeq(dts, IsExpert)
                                 ELSE dts
                        load == IF new_subject THEN [t \in Range(experts) |-> 0]
                                ELSE teacher_load
                        tc1 == TouchAll(teacher_courses, experts)
                        sorted_teachers ==
                            sorted_by_load(load, tc1, experts, DOMAIN experts)
                        \* random.randint(1, m) is 1 + _randbelow(m)
                        ks2 == <<Min(2, Len(sorted_teachers))>>
                    IN \E js2 \in seeded_draws(drawn1, draw_pos + Len(ks1), ks2) :
                        LET n == 1 + js2[1]
                        IN /\ teacher_courses' =
                                  AttachAll(tc1, Take(sorted_teachers, n), course_id)
                           /\ teacher_load' =
                                  [t \in Range(experts) |->
                                      IF t \in Range(Take(sorted_teachers, n))
                                      THEN load[t] + 1 ELSE load[t]]
                           /\ expert_teachers' = experts
                           /\ drawn' = recorded(drawn1, draw_pos + Len(ks1), ks2, js2)
                           /\ draw_pos' = draw_pos + Len(ks1) + 1
    /\ synth_pos' = synth_pos + 1
    /\ UNCHANGED courses_by_dept_subject
    /\ UNCHANGED <<teachers, courses, rooms, lab_rooms, lab_courses, built, course_dept,
                   teacher_dept, dept_id_to_name, dept_name_to_id, tables, args, attempt,
                   current_mode, pc, timetable, exit_code, assign, output, row,
                   assignments_loaded, first_run>>

\* _create_expertise_based_assignments returns; its locals are gone
EndOfSynthesis ==
    /\ pc = "synthesis"
    /\ synth_pos > Len(courses_by_dept_subject)
    /\ pc' = "call"
    /\ courses_by_dept_subject' = <<>>
    /\ dept_teachers' = <<>>
    /\ expert_teachers' = <<>>
    /\ teacher_load' = <<>>
    /\ UNCHANGED <<catalog, built, course_dept, teacher_dept, dept_id_to_name,
                   dept_name_to_id, tables, args, attempt, current_mode, timetable,
                   exit_code, assign, output, row, assignments_loaded, synth_pos,
                   drawn, draw_pos, first_run>>

\* self.teacher_expertise after load_data
expertise_map ==
    [i \in DOMAIN teachers |->
        [teacher |-> teachers[i],
         subjects |-> teacher_expertise(teacher_courses, teachers[i])]]

\* a second TimetableGenerator(data_dir) over the same tables, after the
\* random generator was seeded again with the same seed; the maps of the
\* first generator are kept aside
ConstructAgain ==
    /\ pc = "call" /\ attempt = 0
    /\ first_run = <<>>
    /\ first_run' = <<[teacher_courses |-> teacher_courses,
                       teacher_expertise |-> expertise_map]>>
    /\ draw_pos' = 0
    /\ teachers' = <<>>
    /\ courses' = <<>>
    /\ rooms' = <<>>
    /\ lab_rooms' = {}
    /\ lab_courses' = {}
    /\ teacher_courses' = <<>>
    /\ course_dept' = <<>>
    /\ teacher_dept' = <<>>
    /\ dept_id_to_name' = <<>>
    /\ dept_name_to_id' = <<>>
    /\ row' = 1
    /\ assignments_loaded' = FALSE
    /\ synth_pos' = 1
    /\ courses_by_dept_subject' = <<>>
    /\ pc' = "load"
    /\ UNCHANGED <<built, tables, args, attempt, current_mode, timetable, exit_code,
                   assign, output, dept_teachers, expert_teachers, teacher_load,
                   drawn>>

\* generate_timetable up to solver.Solve: reduction and model construction.
\* An unbound courses_to_include raises NameError, which nothing catches.
GenerateTimetable ==
    /\ pc = "call"
    /\ current_mode' = attempt_mode
    /\ IF reduced
       THEN /\ courses' = reduced_courses
            /\ lab_courses' = reduced_lab_courses
            /\ teacher_courses' = reduced_teacher_courses
            /\ teachers' = Take(active_teachers, max_teachers)
            /\ rooms' = active_rooms
            /\ lab_rooms' = Range(lab_rooms_list)
       ELSE UNCHANGED catalog
    /\ UNCHANGED <<loaded, args, attempt, timetable, output>>
    /\ all_rooms' = build_all_rooms'
    /\ valid_teacher_courses' = build_valid_teacher_courses'
    /\ valid_rooms' = build_valid_rooms'
    /\ course_year' = build_course_year'
    /\ dept_year_courses' = build_dept_year_courses'
    /\ x' = IF unbound_courses_to_include' THEN {} ELSE build_x'
    /\ assign' = {}
    /\ IF unbound_courses_to_include'
       THEN pc' = "done" /\ exit_code' = 1
       ELSE pc' = "solving" /\ exit_code' = exit_code

\* search order of the solver: the order in which the keys were put into x
search_order(k) ==
    (((k[1] * num_courses + k[2]) * reduced_days + k[3]) * reduced_slots + k[4])
        * num_rooms + k[5]

\* solver.Solve at work: one more variable is set to 1
SolverBranch ==
    /\ pc = "solving"
    /\ Cardinality(assign) < timeout
    /\ \E k \in x :
        /\ k[3] < SearchDays
        /\ \A j \in assign : search_order(j) < search_order(k)
        /\ assign' = assign \cup {k}
    /\ UNCHANGED <<catalog, built, loaded, args, attempt, current_mode, pc, timetable,
                   exit_code, output>>

\* status OPTIMAL or FEASIBLE: the assignment satisfies every posted
\* constraint; print_timetable writes it and generate_timetable returns True
SolveFound ==
    /\ pc = "solving"
    /\ posted_constraints(current_mode, assign)
    /\ master_timetable' = timetable_rows(assign)
    /\ written' = TRUE
    /\ timetable' = TRUE
    /\ pc' = "report"
    /\ UNCHANGED <<catalog, built, loaded, args, attempt, current_mode, exit_code, assign>>

\* status INFEASIBLE or UNKNOWN (the time ran out): generate_timetable
\* returns False; the adaptive walk moves on to the next-looser profile
SolveNotFound ==
    /\ pc = "solving"
    /\ timetable' = FALSE
    /\ assign' = {}
    /\ IF adaptive_walk /\ attempt + 1 < attempts_allowed
       THEN attempt' = attempt + 1 /\ pc' = "call"
       ELSE attempt' = attempt /\ pc' = "report"
    /\ UNCHANGED <<catalog, built, loaded, args, current_mode, exit_code, output>>

\* main after the attempts: the success branch iterates over `timetable`,
\* which is the boolean True, and dies of TypeError; the failure branch
\* prints its advice and main returns
Report ==
    /\ pc = "report"
    /\ exit_code' = IF timetable THEN 1 ELSE 0
    /\ pc' = "done"
    /\ UNCHANGED <<catalog, built, loaded, args, attempt, current_mode, timetable,
                   assign, output>>

Next == GenerateTimetable \/ SolverBranch \/ SolveFound \/ SolveNotFound \/ Report

(***************************************************************************)
(* Initial states: the generator as its constructor leaves it, and the     *)
(* command line.                                                           *)
(***************************************************************************)
T1 == "t1@x"
T2 == "t2@x"
T3 == "t3@x"

Catalog(ts, cs, labs, rs, tc) ==
    [teachers |-> ts, courses |-> cs, lab_courses |-> labs, rooms |-> rs,
     teacher_courses |-> tc]

\* one teacher, one course, one room
DayCatalogs ==
    {Catalog(<<T1>>, <<CS21A>>, labs, rs, <<Entry(T1, <<CS21A>>)>>) :
        labs \in {{}, {CS21A}}, rs \in {<<"R1">>, <<"L1">>}}

\* two teachers; the second one idle, or never assigned at all
IdleTeacherCatalogs ==
    {Catalog(<<T1, T2>>, <<CS21A>>, labs, rs, tc) :
        labs \in {{}, {CS21A}},
        rs \in {<<"R1", "R2">>, <<"L1", "L2">>},
        tc \in {<<Entry(T1, <<CS21A>>)>>}}
    \cup {Catalog(<<T1, T2>>, <<CS21A>>, {}, <<"R1">>, <<>>)}

\* two teachers who share a course, or a room, or both
SharingCatalogs ==
    {Catalog(<<T1, T2>>, <<CS21A, CS21B>>, {CS21B}, <<"R1", "L1">>, tc) :
        tc \in {<<Entry(T1, <<CS21A, CS21B>>), Entry(T2, <<CS21B>>)>>,
                <<Entry(T2, <<CS21B>>), Entry(T1, <<CS21A, CS21B>>)>>}}
    \cup {Catalog(<<T1, T2>>, <<CS21A>>, {}, <<"R1">>,
                  <<Entry(T1, <<CS21A>>), Entry(T2, <<CS21A>>)>>)}
    \cup {Catalog(<<T1, T2>>, <<CS21A, c>>, {}, <<"R1">>,
                  <<Entry(T1, <<CS21A>>), Entry(T2, <<c>>)>>) :
            c \in {CS21B, MAX1C}}

GridCatalogs == IdleTeacherCatalogs \cup SharingCatalogs

\* the tables a catalog is loaded from: every teacher has a department of
\* their own, and the assignments table names, for each course of a teacher,
\* that department as the teaching department
DepartmentRows == <<[id |-> "1", dept_name |-> "D1"], [id |-> "2", dept_name |-> "D2"]>>

TeacherDeptId(t) == IF t = T1 THEN "1" ELSE "2"

TeacherRows(ts) ==
    [i \in DOMAIN ts |->
        [teacher_id__email |-> ts[i], dept_id |-> TeacherDeptId(ts[i]),
         resignation_status |-> "active"]]

CourseRows(cs, labs) ==
    [i \in DOMAIN cs |->
        [course_id |-> cs[i], course_dept_id |-> DeptOfCourse[cs[i]],
         practical_hours |-> IF cs[i] \in labs THEN 2 ELSE 0]]

RoomRows(rs) ==
    [i \in DOMAIN rs |->
        [room_number |-> rs[i],
         is_lab |-> IF rs[i] \in Range(LabNumbers) THEN "True" ELSE "False"]]

RECURSIVE AssignmentRows(_)
AssignmentRows(tc) ==
    IF tc = <<>> THEN <<>>
    ELSE [i \in DOMAIN Head(tc).courses |->
              [course_code |-> Head(tc).courses[i],
               faculty |-> DictOf(DepartmentRows, "id", "dept_name")[
                               TeacherDeptId(Head(tc).teacher)]]]
         \o AssignmentRows(Tail(tc))

Arguments(modes, adaptives, attempts, reductions, staggers, timeouts) ==
    [constraint_mode : modes, adaptive : adaptives, max_attempts : attempts,
     reduced : reductions, staggered : staggers, timeout : timeouts]

Modes == Range(constraint_modes)

InitWith(cat, a) ==
    /\ teachers = cat.teachers
    /\ courses = cat.courses
    /\ rooms = cat.rooms
    /\ lab_rooms = {r \in Range(cat.rooms) : r \in Range(LabNumbers)}
    /\ lab_courses = cat.lab_courses
    /\ teacher_courses = cat.teacher_courses
    /\ valid_teacher_courses = <<>>
    /\ valid_rooms = <<>>
    /\ course_year = <<>>
    /\ dept_year_courses = <<>>
    /\ all_rooms = <<>>
    /\ x = {}
    /\ course_dept = [c \in Range(cat.courses) |-> DeptOfCourse[c]]
    /\ teacher_dept = [t \in Range(cat.teachers) |-> TeacherDeptId(t)]
    /\ dept_id_to_name = DictOf(DepartmentRows, "id", "dept_name")
    /\ dept_name_to_id = DictOf(DepartmentRows, "dept_name", "id")
    /\ departments_csv = DepartmentRows
    /\ courses_csv = CourseRows(cat.courses, cat.lab_courses)
    /\ rooms_csv = RoomRows(cat.rooms)
    /\ teachers_csv = TeacherRows(cat.teachers)
    /\ assignments_csv = AssignmentRows(cat.teacher_courses)
    /\ row = Len(AssignmentRows(cat.teacher_courses)) + 1
    /\ assignments_loaded = (cat.teacher_courses # <<>>)
    /\ synth_pos = 1
    /\ courses_by_dept_subject = <<>>
    /\ dept_teachers = <<>>
    /\ expert_teachers = <<>>
    /\ teacher_load = <<>>
    /\ drawn = [i \in DOMAIN AssignmentRows(cat.teacher_courses) |-> <<1, 0>>]
    /\ draw_pos = Len(AssignmentRows(cat.teacher_courses))
    /\ first_run = <<>>
    /\ constraint_mode = a.constraint_mode
    /\ adaptive = a.adaptive
    /\ max_attempts = a.max_attempts
    /\ reduced = a.reduced
    /\ staggered = a.staggered
    /\ timeout = a.timeout
    /\ attempt = 0
    /\ current_mode = a.constraint_mode
    /\ pc = "call"
    /\ timetable = FALSE
    /\ exit_code = -1
    /\ assign = {}
    /\ master_timetable = <<>>
    /\ written = FALSE

InitDay ==
    \E cat \in DayCatalogs,
       a \in Arguments(Modes, {FALSE}, {3}, {TRUE}, {FALSE}, {LongTimeout}) :
        InitWith(cat, a)

InitGrid ==
    \E cat \in GridCatalogs,
       a \in Arguments(Modes, {FALSE}, {3}, BOOLEAN, {FALSE}, {ShortTimeout}) :
        InitWith(cat, a)

SpecDay == InitDay /\ [][Next]_vars

SpecGrid == InitGrid /\ [][Next]_vars

(***************************************************************************)
(* The adaptive walk: --adaptive with every profile and with --max-attempts *)
(* below, at and above the number of profiles.  The loop of main takes its *)
(* next step whenever it can, so the run is weakly fair.                   *)
(***************************************************************************)
InitWalk ==
    \E cat \in DayCatalogs,
       a \in Arguments(Modes, {TRUE}, {1, 2, 3, 5}, {TRUE}, {FALSE}, {UnitTimeout}) :
        InitWith(cat, a)

SpecWalk == InitWalk /\ [][Next]_vars /\ WF_vars(Next)

(***************************************************************************)
(* Runs followed from the tables on: the constructor's load_data, then     *)
(* main.                                                                   *)
(***************************************************************************)
TeacherRow(t, d, status) ==
    [teacher_id__email |-> t, dept_id |-> d, resignation_status |-> status]

CourseRow(c, d) == [course_id |-> c, course_dept_id |-> d, practical_hours |-> 0]

AssignmentRow(c, d) == [course_code |-> c, faculty |-> d]

Tables(ds, cs, rs, ts, as) ==
    [departments |-> ds, courses |-> cs, rooms |-> rs, teachers |-> ts,
     assignments |-> as]

\* department 2 has no active teacher; department "MA" is not in the
\* departments table
StaffWithLeavers ==
    <<TeacherRow(T1, "1", "active"), TeacherRow(T2, "1", "resigned"),
      TeacherRow(T3, "2", "Active")>>

StaffOfThree ==
    <<TeacherRow(T1, "1", "active"), TeacherRow(T2, "1", "active"),
      TeacherRow(T3, "1", "active")>>

CourseTable == <<CourseRow(CS21A, "D1"), CourseRow(MAX1C, "MA")>>

CourseTableOfThree ==
    <<CourseRow(CS21A, "D1"), CourseRow(CS21B, "D2"), CourseRow(MAX1C, "MA")>>

\* the full tables, and the same with one of rooms, teachers, courses absent
MissingTableSets ==
    {Tables(DepartmentRows, cs, rs, ts, as) :
        cs \in {CourseTable}, rs \in {RoomRows(<<"R1">>)}, ts \in {StaffWithLeavers},
        as \in {<<>>, <<AssignmentRow(CS21A, "D1")>>}}
    \cup {Tables(DepartmentRows, <<>>, RoomRows(<<"R1">>), StaffWithLeavers, as) :
            as \in {<<>>, <<AssignmentRow(CS21A, "D1")>>}}
    \cup {Tables(DepartmentRows, CourseTable, <<>>, StaffWithLeavers, as) :
            as \in {<<>>, <<AssignmentRow(CS21A, "D1")>>}}
    \cup {Tables(DepartmentRows, CourseTable, RoomRows(<<"R1">>), <<>>, as) :
            as \in {<<>>, <<AssignmentRow(CS21A, "D1")>>}}

\* an identifier made of a prefix and a three-digit number
Numbered(prefix, n) ==
    LET digit(k) == <<"0", "1", "2", "3", "4", "5", "6", "7", "8", "9">>[k + 1]
    IN prefix \o <<digit(n \div 100), digit((n \div 10) % 10), digit(n % 10)>>

\* both modes of the inducer: an assignments table that lists a course
\* once, twice or not at all, or no assignments table
InducerTableSets ==
    {Tables(DepartmentRows, CourseTableOfThree, RoomRows(<<"R1">>), StaffOfThree, as) :
        as \in {<<>>,
                <<AssignmentRow(CS21A, "D1")>>,
                <<AssignmentRow(CS21A, "D1"), AssignmentRow(CS21A, "D1")>>,
                <<AssignmentRow(CS21B, "D2"), AssignmentRow(MAX1C, "MA")>>}}

InitTables(tabs, a) ==
    /\ departments_csv = tabs.departments
    /\ courses_csv = tabs.courses
    /\ rooms_csv = tabs.rooms
    /\ teachers_csv = tabs.teachers
    /\ assignments_csv = tabs.assignments
    /\ teachers = <<>>
    /\ courses = <<>>
    /\ rooms = <<>>
    /\ lab_rooms = {}
    /\ lab_courses = {}
    /\ teacher_courses = <<>>
    /\ valid_teacher_courses = <<>>
    /\ valid_rooms = <<>>
    /\ course_year = <<>>
    /\ dept_year_courses = <<>>
    /\ all_rooms = <<>>
    /\ x = {}
    /\ course_dept = <<>>
    /\ teacher_dept = <<>>
    /\ dept_id_to_name = <<>>
    /\ dept_name_to_id = <<>>
    /\ row = 1
    /\ assignments_loaded = FALSE
    /\ synth_pos = 1
    /\ courses_by_dept_subject = <<>>
    /\ dept_teachers = <<>>
    /\ expert_teachers = <<>>
    /\ teacher_load = <<>>
    /\ drawn = <<>>
    /\ draw_pos = 0
    /\ first_run = <<>>
    /\ constraint_mode = a.constraint_mode
    /\ adaptive = a.adaptive
    /\ max_attempts = a.max_attempts
    /\ reduced = a.reduced
    /\ staggered = a.staggered
    /\ timeout = a.timeout
    /\ attempt = 0
    /\ current_mode = a.constraint_mode
    /\ pc = "load"
    /\ timetable = FALSE
    /\ exit_code = -1
    /\ assign = {}
    /\ master_timetable = <<>>
    /\ written = FALSE

InitLoad ==
    \/ \E tabs \in MissingTableSets,
           a \in Arguments(Modes, {FALSE}, {3}, BOOLEAN, {FALSE}, {UnitTimeout}) :
            InitTables(tabs, a)
    \/ \E tabs \in InducerTableSets,
           a \in Arguments({"relaxed"}, {FALSE}, {3}, {TRUE}, {FALSE}, {UnitTimeout}) :
            InitTables(tabs, a)

NextFromLoad ==
    \/ LoadTables
    \/ LoadAssignmentRow
    \/ EndOfAssignments
    \/ SynthesizeCourse
    \/ EndOfSynthesis
    \/ Next

SpecLoad == InitLoad /\ [][NextFromLoad]_vars

(***************************************************************************)
(* --staggered: two teachers with a course each and one, two or three      *)
(* rooms, and the one-teacher catalogs.                                    *)
(***************************************************************************)
StaggerCatalogs ==
    {Catalog(<<T1, T2>>, <<CS21A, MAX1C>>, {}, rs,
             <<Entry(T1, <<CS21A>>), Entry(T2, <<MAX1C>>)>>) :
        rs \in {<<"R1">>, <<"R1", "R2">>, <<"R1", "R2", "S01">>}}
    \cup DayCatalogs

InitStagger ==
    \E cat \in StaggerCatalogs,
       a \in Arguments({"relaxed"}, {FALSE}, {3}, {TRUE}, {TRUE}, {ShortTimeout}) :
        InitWith(cat, a)

SpecStagger == InitStagger /\ [][Next]_vars

(***************************************************************************)
(* The inducer run twice: two generators constructed one after the other   *)
(* from the same tables, the random generator seeded alike before each.    *)
(***************************************************************************)
\* no assignments table; department 1 has three teachers, four courses of
\* subject CS and one of subject MA, department 2 has one course of subject
\* CS and no teacher
BalanceTables ==
    LET CS(i) == Numbered(<<"C", "S">>, i)
        MA(i) == Numbered(<<"M", "A">>, i)
    IN Tables(DepartmentRows,
              <<CourseRow(CS(1), "D1"), CourseRow(MA(1), "D1"), CourseRow(CS(2), "D1"),
                CourseRow(CS(3), "D1"), CourseRow(CS(5), "D2"), CourseRow(CS(4), "D1")>>,
              RoomRows(<<"R1">>), StaffOfThree, <<>>)

InitTwin ==
    \E tabs \in InducerTableSets \cup {BalanceTables},
       a \in Arguments({"relaxed"}, {FALSE}, {3}, {TRUE}, {FALSE}, {UnitTimeout}) :
        InitTables(tabs, a)

NextTwin ==
    \/ LoadTables
    \/ LoadAssignmentRow
    \/ EndOfAssignments
    \/ SynthesizeCourse
    \/ EndOfSynthesis
    \/ ConstructAgain

SpecTwin == InitTwin /\ [][NextTwin]_vars

(***************************************************************************)
(* Catalogs larger than the reduction admits: more courses than            *)
(* max_courses, more teachers than max_teachers, more rooms than max_rooms *)
(* and more laboratories than max_lab_rooms.  Each table set exceeds one   *)
(* cap, so that the dictionary x stays small.                              *)
(***************************************************************************)
CapTableSets ==
    LET CS(i) == Numbered(<<"C", "S">>, i)
        \* one course more than max_courses; t1@x is listed for the last seven
        \* courses, t2@x for the last one alone
        too_many_courses ==
            Tables(DepartmentRows,
                   [i \in 1 .. max_courses + 1 |-> CourseRow(CS(i), "D1")],
                   RoomRows(<<"R1">>),
                   TeacherRows(<<T1, T2>>),
                   [i \in 1 .. 7 |-> AssignmentRow(CS(max_courses - 6 + i), "D1")]
                       \o <<AssignmentRow(CS(max_courses + 1), "D2")>>)
        \* one teacher more than max_teachers, each alone in a department
        \* that the assignments table names for the one course; no room
        staff == 1 .. max_teachers + 1
        too_many_teachers ==
            Tables([i \in staff |-> [id |-> Numbered(<<"d">>, i),
                                     dept_name |-> Numbered(<<"D">>, i)]],
                   <<CourseRow(CS21A, "D1")>>,
                   <<>>,
                   [i \in staff |->
                       TeacherRow(Numbered(<<"t">>, i), Numbered(<<"d">>, i), "active")],
                   [i \in staff |-> AssignmentRow(CS21A, Numbered(<<"D">>, i))])
        \* more laboratories than max_lab_rooms and two other rooms, listed in
        \* descending order; one theory course, whose teacher the synthesis
        \* finds
        descending(rs) == [i \in DOMAIN rs |-> rs[Len(rs) + 1 - i]]
        too_many_labs ==
            Tables(DepartmentRows,
                   <<CourseRow(CS21A, "D1")>>,
                   RoomRows(descending(LabNumbers \o <<"R1", "R2">>)),
                   TeacherRows(<<T1>>),
                   <<>>)
        \* every room of the pool, and no course
        too_many_rooms ==
            Tables(DepartmentRows, <<>>, RoomRows(descending(RoomPool)),
                   TeacherRows(<<T1>>), <<>>)
    IN {too_many_courses, too_many_teachers, too_many_labs, too_many_rooms}

InitCaps ==
    \E tabs \in CapTableSets,
       a \in Arguments({"relaxed"}, {FALSE}, {3}, BOOLEAN, {FALSE}, {UnitTimeout}) :
        InitTables(tabs, a)

SpecCaps == InitCaps /\ [][NextFromLoad]_vars

(***************************************************************************)
(* The adaptive walk over catalogs larger than the reduction admits: every *)
(* attempt calls generate_timetable on the same generator.                 *)
(***************************************************************************)
InitRetry ==
    \E tabs \in CapTableSets,
       a \in Arguments({"balanced", "hybrid"}, {TRUE}, {3}, {TRUE}, {FALSE},
                       {UnitTimeout}) :
        InitTables(tabs, a)

SpecRetry == InitRetry /\ [][NextFromLoad]_vars

(***************************************************************************)
(* The classes of one cohort: two teachers, each with one course of the    *)
(* same department and year, and one room.                                 *)
(***************************************************************************)
InitCohort ==
    \E a \in Arguments({"relaxed", "hybrid"}, {FALSE}, {3}, {TRUE}, {FALSE},
                       {CohortTimeout}) :
        InitWith(Catalog(<<T1, T2>>, <<CS21A, CS21B>>, {}, <<"R1">>,
                         <<Entry(T1, <<CS21A>>), Entry(T2, <<CS21B>>)>>), a)

SpecCohort == InitCohort /\ [][Next]_vars

(***************************************************************************)
(* Properties of the produced schedule.                                    *)
(***************************************************************************)
RowIdx == DOMAIN master_timetable
Row(i) == master_timetable[i]
SameSlot(i, j) == Row(i).Day = Row(j).Day /\ Row(i).Slot = Row(j).Slot
RowsOfTeacherDay(teacher, day) ==
    {i \in RowIdx : Row(i).Teacher = teacher /\ Row(i).Day = day}
RowsOfCourse(course) == {i \in RowIdx : Row(i).Course = course}
StrictProfile == current_mode \in {"balanced", "hybrid", "real"}

\* C1: in every produced schedule, whatever the profile and the numbers of
\* teachers, courses and rooms, no two entries share (teacher, day, slot).
TeacherSlotExclusive ==
    written =>
        \A i, j \in RowIdx :
            (i # j /\ SameSlot(i, j)) => Row(i).Teacher # Row(j).Teacher

\* C2: in every produced schedule no two entries share (course, day, slot),
\* also when the course has two teachers or several valid rooms.
CourseSlotExclusive ==
    written =>
        \A i, j \in RowIdx :
            (i # j /\ SameSlot(i, j)) => Row(i).Course # Row(j).Course

\* C3: in every produced schedule no two entries share (room, day, slot).
RoomSlotExclusive ==
    written =>
        \A i, j \in RowIdx :
            (i # j /\ SameSlot(i, j)) => Row(i).Room # Row(j).Room

\* a schedule in which two teachers use the same room on the same day
RoomSharedWitness ==
    /\ written
    /\ \E i, j \in RowIdx :
        /\ Row(i).Room = Row(j).Room /\ Row(i).Day = Row(j).Day
        /\ Row(i).Teacher # Row(j).Teacher /\ Row(i).Slot # Row(j).Slot

\* C4: in every produced schedule every teacher has at most 5 entries on
\* every day.
TeacherDailyCap ==
    written =>
        \A teacher \in Range(teachers), day \in Range(days) :
            Cardinality(RowsOfTeacherDay(teacher, day)) <= 5

\* a schedule in which a teacher teaches exactly 5 slots of one day
TeacherAtCapWitness ==
    /\ written
    /\ \E teacher \in Range(teachers), day \in Range(days) :
        Cardinality(RowsOfTeacherDay(teacher, day)) = 5

\* C5: under balanced, hybrid or real, every teacher has on every day at
\* least one of the slots 5, 6, 7 of the Slot column free.
LunchWindowFree ==
    (written /\ StrictProfile) =>
        \A teacher \in Range(teachers), day \in Range(days) :
            \E slot \in {5, 6, 7} :
                \A i \in RowsOfTeacherDay(teacher, day) : Row(i).Slot # slot

\* C6: under balanced, hybrid or real, every lab-course entry at slot s has
\* an entry of the same course, teacher, room and day at slot s+1 or at
\* slot s-1; the last admitted slot and every lab course included.
LabEntriesPaired ==
    (written /\ StrictProfile) =>
        \A i \in RowIdx :
            Row(i).Course \in lab_courses =>
                \E j \in RowIdx :
                    /\ Row(j).Course = Row(i).Course
                    /\ Row(j).Teacher = Row(i).Teacher
                    /\ Row(j).Room = Row(i).Room
                    /\ Row(j).Day = Row(i).Day
                    /\ (Row(j).Slot = Row(i).Slot + 1 \/ Row(j).Slot = Row(i).Slot - 1)

\* C7: under hybrid or real, for every (department, year) cohort with
\* year > 0 and every (day, slot), at most one entry is of a course of the
\* cohort.
CohortDisjoint ==
    (written /\ current_mode \in {"hybrid", "real"}) =>
        \A i, j \in RowIdx :
            (/\ i # j /\ SameSlot(i, j)
             /\ year_of_course(Row(i).Course) > 0
             /\ year_of_course(Row(i).Course) = year_of_course(Row(j).Course))
            => CourseDeptGet(Row(i).Course) # CourseDeptGet(Row(j).Course)

\* the N of a profile, as stated: 1 under relaxed and balanced, 2 under
\* hybrid and real
StatedInstances == IF current_mode \in {"relaxed", "balanced"} THEN 1 ELSE 2

\* C8: in every produced schedule a course with at least N candidate
\* decision variables has at least N entries.
MinimumInstances ==
    written =>
        \A c \in CourseIdx :
            Cardinality({k \in x : k[2] = c}) >= StatedInstances =>
                Cardinality(RowsOfCourse(courses[c + 1])) >= StatedInstances

\* a schedule of a profile with N = 2 in which a course has exactly 2 entries
TwoInstancesWitness ==
    /\ written
    /\ current_mode \in {"hybrid", "real"}
    /\ \E c \in CourseIdx :
        /\ Cardinality({k \in x : k[2] = c}) >= 2
        /\ Cardinality(RowsOfCourse(courses[c + 1])) = 2

ExitCodeTellsOutcome ==
    pc = "done" => (exit_code = 0 <=> (timetable /\ written))

\* the profiles from the strictest to the loosest
LooserOrder == <<"real", "hybrid", "balanced", "relaxed">>

\* place of the chosen profile in LooserOrder, counted from 1
ChosenPlace == IndexOf(LooserOrder, constraint_mode) + 1

WalkWithinBounds == attempt + 1 <= max_attempts /\ ChosenPlace + attempt <= 4

WalkStep ==
    /\ (pc = "call" /\ pc' = "solving") => current_mode' = LooserOrder[ChosenPlace + attempt]
    /\ attempt' # attempt =>
           (attempt' = attempt + 1 /\ pc = "solving" /\ ~timetable' /\ ~written)

\* C11: in adaptive mode with max_attempts >= 1 the attempts go one profile
\* at a time from the chosen profile to the next-looser one, a further
\* attempt follows only an attempt that returned no solution, there are at
\* most max_attempts attempts and none past relaxed, and the walk ends.
AdaptiveWalkOrder ==
    [](adaptive => WalkWithinBounds) /\ [][adaptive => WalkStep]_vars /\ <>(pc = "done")

\* a walk from hybrid that ends at relaxed, its third attempt, having found
\* nothing, although --max-attempts allows five
WalkEndsAtRelaxedWitness ==
    /\ adaptive /\ constraint_mode = "hybrid" /\ max_attempts = 5
    /\ pc = "done" /\ attempt = 2 /\ current_mode = "relaxed" /\ ~timetable

\* the part of C12 that is about the walk alone: nothing runs after a
\* success, a failed attempt writes nothing, and a walk whose attempts all
\* fail ends with no schedule and the outcome False
FirstSuccessEndsWalk ==
    /\ written => (timetable /\ pc \in {"report", "done"})
    /\ (pc \in {"report", "done"} /\ ~timetable) => (~written /\ master_timetable = <<>>)

\* the balanced property set: the four exclusivity and load rules, the
\* lunch window and the lab pairs
BalancedPropertySet ==
    /\ TeacherSlotExclusive /\ CourseSlotExclusive /\ RoomSlotExclusive
    /\ TeacherDailyCap /\ LunchWindowFree /\ LabEntriesPaired

\* C12: in adaptive mode the emitted schedule is that of the first attempt
\* whose solve succeeds; no attempt runs after it, a failed attempt writes
\* nothing, and if all fail nothing is emitted; a walk from real that
\* succeeds at balanced emits a schedule with the balanced property set.
FirstSuccessWins ==
    adaptive =>
        /\ FirstSuccessEndsWalk
        /\ (written /\ constraint_mode = "real" /\ current_mode = "balanced")
               => BalancedPropertySet

\* generate_timetable ended with an uncaught exception
GenerateRaised == pc = "done" /\ exit_code = 1 /\ ~timetable

\* load_data has returned and no generate_timetable call has been made
JustLoaded == pc = "call" /\ attempt = 0

OneTableMissing ==
    /\ Cardinality({t \in {"rooms", "teachers", "courses"} :
                       \/ t = "rooms" /\ rooms_csv = <<>>
                       \/ t = "teachers" /\ teachers_csv = <<>>
                       \/ t = "courses" /\ courses_csv = <<>>}) = 1

\* C13: when exactly one of the rooms, teachers and courses tables is
\* missing, loading followed by generate_timetable raises no error and
\* yields an empty schedule, with the reduction on or off, in any profile.
MissingTableTolerated ==
    OneTableMissing => (~GenerateRaised /\ (written => master_timetable = <<>>))

\* C14: when no decision variable is created, generate_timetable does not
\* invoke the solver, raises nothing, and its result is "no schedule".
EmptyModelSkipsSolver ==
    (x = {} /\ pc \in {"solving", "report", "done"}) =>
        (pc # "solving" /\ ~GenerateRaised /\ ~timetable /\ ~written)

AssignedTeachers(course) ==
    {t \in Range(teachers) : course \in Range(TeacherCoursesGet(teacher_courses, t))}

\* the rows of the assignments table that name the course and resolve
ListedRows(course) ==
    {i \in DOMAIN assignments_csv :
        RowResolves(assignments_csv[i]) /\ assignments_csv[i].course_code = course}

\* a listed course is eligible for the teachers of its teaching departments,
\* a course that is not listed for every active teacher
EligibleTeacherExists(course) ==
    IF ListedRows(course) # {}
    THEN \E i \in ListedRows(course) :
            teachers_of_dept(dept_name_to_id[assignments_csv[i].faculty]) # <<>>
    ELSE teachers # <<>>

\* C15: after loading, with or without a prior-assignments table, every
\* course that has an eligible active teacher has at least one assigned
\* teacher, also a course the table does not list and a course whose
\* department name does not resolve.
EveryCourseStaffed ==
    JustLoaded =>
        \A c \in Range(courses) : EligibleTeacherExists(c) => AssignedTeachers(c) # {}

\* C16: after loading every course has at most 2 assigned teachers, also
\* when the prior-assignments table lists the course on several rows.
AtMostTwoTeachers ==
    JustLoaded => \A c \in Range(courses) : Cardinality(AssignedTeachers(c)) <= 2

InactiveTeachers ==
    {teachers_csv[i].teacher_id__email :
        i \in {j \in DOMAIN teachers_csv : teachers_csv[j].resignation_status # "active"}}

\* C17: a teacher whose resignation_status is not 'active' is never in the
\* teacher list, in a teacher-course assignment, in a decision variable or
\* in a schedule entry, before or after the reduction.
InactiveNeverScheduled ==
    \A t \in InactiveTeachers :
        /\ t \notin Range(teachers)
        /\ \A i \in DOMAIN teacher_courses : teacher_courses[i].teacher # t
        /\ \A k \in x : teachers[k[1] + 1] # t
        /\ \A i \in RowIdx : Row(i).Teacher # t

\* a schedule with an entry, written after the reduction, for a department
\* one of whose teachers has resigned
LeaverLeftOutWitness ==
    /\ written /\ reduced /\ master_timetable # <<>>
    /\ \E i \in RowIdx, j \in DOMAIN teachers_csv :
        /\ teachers_csv[j].resignation_status = "resigned"
        /\ teachers_csv[j].dept_id = teacher_dept[Row(i).Teacher]

\* C18: with the reduction on, a call that has reduced leaves at most
\* max_courses courses, the first ones of the course table; at most
\* max_teachers teachers, each with at least one course and only admitted
\* courses; at most max_rooms rooms of which at most max_lab_rooms are
\* laboratories; and x holds variables of at most max_courses_per_teacher
\* courses for any teacher.
CoursesWithVariables(t) == {k[2] : k \in {j \in x : j[1] = t}}

CallHasReduced == reduced /\ pc \in {"solving", "report", "done"}

ReductionCaps ==
    CallHasReduced =>
        /\ Len(courses) <= 100
        /\ courses = Take(ColumnOf(courses_csv, "course_id"), 100)
        /\ Len(teachers) <= 200
        /\ \A i \in DOMAIN teachers :
               /\ TeacherCoursesGet(teacher_courses, teachers[i]) # <<>>
               /\ Range(TeacherCoursesGet(teacher_courses, teachers[i]))
                      \subseteq Range(courses)
        /\ Len(rooms) <= 50
        /\ Cardinality({i \in DOMAIN rooms : rooms[i] \in lab_rooms}) <= 20
        /\ \A t \in TeacherIdx : Cardinality(CoursesWithVariables(t)) <= 5

\* the course cap has cut the table, a teacher has lost every course and is
\* gone, and the remaining teacher has six admitted courses and variables
\* for five of them
CapsBiteWitness ==
    /\ CallHasReduced
    /\ Len(courses_csv) > 100 /\ Len(courses) = 100
    /\ Len(teachers) < Len(teachers_csv)
    /\ \E t \in TeacherIdx :
          /\ Cardinality(valid_teacher_courses[t]) > 5
          /\ Cardinality(CoursesWithVariables(t)) = 5
    /\ assign # {}

\* C19: the rows of master_timetable.csv are in lexicographic order of
\* (day, slot, course id, teacher id, room id): days in the order of the
\* week, identifiers in string order.
CharRank(ch) ==
    IndexOf(<<"0", "1", "2", "3", "4", "5", "6", "7", "8", "9",
              "A", "B", "C", "D", "E", "F", "G", "H", "I", "J", "K", "L", "M",
              "N", "O", "P", "Q", "R", "S", "T", "U", "V", "W", "X", "Y", "Z">>, ch)

\* a < b for two course codes
RECURSIVE CodeBefore(_, _)
CodeBefore(a, b) ==
    IF b = <<>> THEN FALSE
    ELSE IF a = <<>> THEN TRUE
    ELSE IF Head(a) # Head(b) THEN CharRank(Head(a)) < CharRank(Head(b))
    ELSE CodeBefore(Tail(a), Tail(b))

\* p <= q in the order of the five columns
RowNotAfter(p, q) ==
    LET day(r) == IndexOf(days, r.Day)
        teacher(r) == IndexOf(<<T1, T2, T3>>, r.Teacher)
        room(r) == IndexOf(RoomPool, r.Room)
    IN \/ day(p) < day(q)
       \/ /\ day(p) = day(q)
          /\ \/ p.Slot < q.Slot
             \/ /\ p.Slot = q.Slot
                /\ \/ CodeBefore(p.Course, q.Course)
                   \/ /\ p.Course = q.Course
                      /\ \/ teacher(p) < teacher(q)
                         \/ /\ teacher(p) = teacher(q)
                            /\ room(p) <= room(q)

RowsInCanonicalOrder ==
    written => \A i, j \in RowIdx : i < j => RowNotAfter(Row(i), Row(j))

\* C20: in a produced schedule no cohort, the courses of one department and
\* year, has classes in more than 6 slots of one day.
CohortSlots(dept, year, day) ==
    {Row(i).Slot : i \in {j \in RowIdx : /\ Row(j).Day = day
                                         /\ CourseDeptGet(Row(j).Course) = dept
                                         /\ year_of_course(Row(j).Course) = year}}

CohortDailyCap ==
    written =>
        \A i \in RowIdx :
            Cardinality(CohortSlots(CourseDeptGet(Row(i).Course),
                                    year_of_course(Row(i).Course),
                                    Row(i).Day)) <= 6

\* C21: two runs of the inducer on the same tables with the same seed end
\* with the same teacher-course map and the same expertise map.
SecondRunLoaded == pc = "call" /\ first_run # <<>>

RowOfKey(i, k) ==
    /\ Row(i).Day = days[k[3] + 1]
    /\ Row(i).Slot = k[4] + 1
    /\ Row(i).Course = courses[k[2] + 1]
    /\ Row(i).Teacher = teachers[k[1] + 1]
    /\ Row(i).Room = all_rooms[k[5] + 1]

EntriesMatchVariables ==
    written =>
        /\ Len(master_timetable) = Cardinality(assign)
        /\ \A k \in assign : Cardinality({i \in RowIdx : RowOfKey(i, k)}) = 1
        /\ \A i \in RowIdx : \E k \in assign \cap x : RowOfKey(i, k)

\* two variables of different teachers, courses and rooms have value 1,
\* and some variable of x has value 0
TwoEntriesWitness ==
    /\ written
    /\ assign # x
    /\ \E k, j \in assign : k[1] # j[1] /\ k[2] # j[2] /\ k[5] # j[5]

\* C23: with staggering on, every (day, slot) of a produced schedule holds
\* at most min(25, floor(number of admitted rooms / 2)) rows; with a single
\* admitted room that is none.
RowsOfSlot(i) == {j \in RowIdx : SameSlot(i, j)}

StaggerCap ==
    (staggered /\ written) =>
        \A i \in RowIdx :
            Cardinality(RowsOfSlot(i)) <= Min(25, Len(rooms) \div 2)

\* a schedule over three rooms whose two classes had to take two slots
StaggeredApartWitness ==
    /\ staggered /\ written
    /\ Len(rooms) = 3
    /\ Len(master_timetable) = 2
    /\ Row(1).Room # Row(2).Room /\ Row(1).Teacher # Row(2).Teacher

\* C24: under the relaxed profile the lab rule the call posts is, for every
\* lab course that has variables, that at least one of its variables is 1,
\* whatever its slot: an assignment satisfies the posted rule exactly when
\* every such lab course has an entry.
EveryLabCourseEntered ==
    \A c \in lab_indices :
        (\E k \in x : k[2] = c) => (\E k \in assign : k[2] = c)

SoftLabRuleAnySlot ==
    (pc = "solving" /\ current_mode = "relaxed") =>
        (lab_simple_constraint(assign) <=> EveryLabCourseEntered)

\* C25: in synthesis mode the course just assigned went to the 1 or 2
\* candidates of its (department, subject area) group that were lowest
\* under the key (courses of the group already held, courses held in all),
\* and the numbers of the group's courses that two candidates hold differ
\* by at most 1.
LastSynthesized ==
    LET c == courses_by_dept_subject[synth_pos - 1]
    IN [course |-> c, dept |-> synth_dept(c), subject |-> subject_area(c)]

HeldOfGroup(t, last) ==
    Cardinality({c \in Range(TeacherCoursesGet(teacher_courses, t)) :
                    synth_dept(c) = last.dept /\ subject_area(c) = last.subject})

HeldInAll(t) == Len(TeacherCoursesGet(teacher_courses, t))

Holders(last) ==
    {t \in Range(expert_teachers) :
        last.course \in Range(TeacherCoursesGet(teacher_courses, t))}

CourseSynthesized == pc = "synthesis" /\ synth_pos > 1 /\ teachers # <<>>

SynthesisBalanced ==
    CourseSynthesized =>
        LET last == LastSynthesized
            held == [t \in Range(expert_teachers) |-> HeldOfGroup(t, last)]
            holders == Holders(last)
        IN /\ Cardinality(holders) \in {1, 2}
           /\ \A h \in holders, u \in Range(expert_teachers) \ holders :
                  \/ held[h] - 1 < held[u]
                  \/ held[h] - 1 = held[u] /\ HeldInAll(h) - 1 <= HeldInAll(u)
           /\ \A t, u \in Range(expert_teachers) : held[t] - held[u] <= 1

\* a course of a group went to a single teacher, the one of three candidates
\* who held one course of the group while the other two held two
FourthCourseWitness ==
    /\ CourseSynthesized
    /\ Len(expert_teachers) = 3
    /\ LET last == LastSynthesized
           held == [t \in Range(expert_teachers) |-> HeldOfGroup(t, last)]
       IN /\ Cardinality(Holders(last)) = 1
          /\ \A t \in Range(expert_teachers) : held[t] = 2

\* C26: each step of the adaptive walk is a relaxation: over the domain of
\* the running call, an assignment that satisfies the constraints posted
\* under real satisfies those posted under hybrid, one that satisfies
\* hybrid's satisfies balanced's, and one that satisfies balanced's
\* satisfies relaxed's.
Relaxes(tighter, looser) ==
    posted_constraints(tighter, assign) => posted_constraints(looser, assign)

EveryStepRelaxes ==
    pc = "solving" =>
        /\ Relaxes("real", "hybrid")
        /\ Relaxes("hybrid", "balanced")
        /\ Relaxes("balanced", "relaxed")

\* C27: over the domain of the running call, and with its staggering flag,
\* the constraints posted under real and those posted under hybrid accept
\* the same assignments (both post lunch, lab consecutivity, cohort
\* conflict and a minimum of 2 instances), so what is infeasible under
\* real is infeasible under hybrid.
RealPostsWhatHybridPosts ==
    pc = "solving" =>
        (posted_constraints("real", assign) <=> posted_constraints("hybrid", assign))

\* both courses of the cohort are scheduled twice and real accepts it
RealAcceptsWitness ==
    /\ pc = "solving"
    /\ posted_constraints("real", assign)
    /\ \A c \in CourseIdx : Cardinality({k \in assign : k[2] = c}) = 2
    /\ num_courses = 2

\* C28: the reduction is idempotent: a call of generate_timetable on a
\* generator that an earlier call has reduced leaves the courses, the
\* teachers and their order, the rooms, the laboratory set, the lab courses
\* and the teacher-course lists as they were, and builds the same x.
RetryKeepsDomain ==
    [][(pc = "call" /\ attempt >= 1 /\ reduced) => (catalog' = catalog /\ x' = x)]_vars

\* a retry is solving over a catalog that the first call has cut
RetryOverCutCatalog ==
    /\ pc = "solving"
    /\ attempt >= 1
    /\ reduced
    /\ \/ Len(courses) = max_courses /\ Len(courses_csv) > max_courses
       \/ Len(rooms) = max_rooms /\ Len(rooms_csv) > max_rooms

\* C29: in a schedule produced with lab consecutivity on, a row of a lab
\* course the chain is posted for, in slot s, comes with rows of the same
\* teacher, course, day and room in every later admitted slot up to the
\* last one; with 8 admitted slots none of its rows is in slots 1 to 3.
ConsecutivityOn ==
    ~relaxed_constraints(current_mode) \/ enable_lab_consecutive(current_mode)

ChainedLabCourses ==
    {courses[c + 1] : c \in first_indices(lab_indices, consecutive_lab_limit)}

ChainedInSlot(i, s) ==
    \E j \in RowIdx :
        /\ Row(j).Slot = s
        /\ Row(j).Teacher = Row(i).Teacher /\ Row(j).Course = Row(i).Course
        /\ Row(j).Day = Row(i).Day /\ Row(j).Room = Row(i).Room

LabChainToLastSlot ==
    (written /\ ConsecutivityOn) =>
        \A i \in RowIdx :
            Row(i).Course \in ChainedLabCourses =>
                /\ \A s \in Row(i).Slot + 1 .. reduced_slots : ChainedInSlot(i, s)
                /\ reduced_slots = 8 => Row(i).Slot \notin 1 .. 3

\* a lab course under the chain was written into slots 7 and 8
LabChainWitness ==
    /\ written /\ ConsecutivityOn
    /\ \E i \in RowIdx :
          /\ Row(i).Course \in ChainedLabCourses
          /\ Row(i).Slot = 7
          /\ ChainedInSlot(i, 8)

\* C30: with the reduction on or off, every variable of x, and so every row
\* of a produced schedule, lies on Monday to Thursday and in slots 1 to 8;
\* none lies on Friday or in slots 9 to 13.
EntriesWithinCaps ==
    /\ \A k \in x : k[3] \in 0 .. 3 /\ k[4] \in 0 .. 7
    /\ written =>
           \A i \in RowIdx :
               /\ Row(i).Day \in {"Monday", "Tuesday", "Wednesday", "Thursday"}
               /\ Row(i).Slot \in 1 .. 8

\* without the reduction, a schedule with a row in slot 8 over an x that
\* has variables for Thursday
UnreducedLastSlotWitness ==
    /\ written /\ ~reduced
    /\ \E i \in RowIdx : Row(i).Slot = 8
    /\ \E k \in x : k[3] = 3

====
